---- MODULE Spec2Model ----
(***************************************************************************)
(* The image-delivery core of the flashback slideshow (src/slideshow.py):  *)
(* the settings, the shuffled playback order, the image cache, the         *)
(* background loader thread and the Tk-driven controller (timer ticks,     *)
(* previous, pause, fullscreen, the settings dialog); the list and image   *)
(* endpoints of src/server.py; apply_exif_orientation on pixels.           *)
(*                                                                         *)
(* Two threads run: the Tk main thread (the controller; one callback at a  *)
(* time) and the daemon thread background_loader.  Neither takes a lock,   *)
(* so a step of either thread holds one access to the state they share:    *)
(* image_cache, error_count and current_index.  A step may hold, besides   *)
(* its one shared access, what the other thread cannot observe (locals,    *)
(* timers, the label, is_paused) and a put on the queue, which the loader  *)
(* can only observe later.                                                 *)
(* Playback indexes are 0-based as in the source; TLA+ sequences are       *)
(* 1-based, hence the `+ 1` in subscripts.                                 *)
(*                                                                         *)
(* A session is what the environment gives the program: the list and its   *)
(* files, the draws of the shuffle, config.ini, the keys and buttons the   *)
(* user presses and the time the window stays open, counted in timers that *)
(* expire.  The queue, Tk's timer table and error_count have no limit in   *)
(* the program and none here: they grow as far as the session lets them.   *)
(*                                                                         *)
(* The server answers each request in a thread of its own; the handlers    *)
(* share the dict `slideshows` without a lock, so a step of a handler      *)
(* holds one access to it, and the steps of the requests being served      *)
(* interleave.  Its input is the requests the clients send.                *)
(***************************************************************************)
EXTENDS Integers, Sequences, FiniteSets, TLC

\* ------------------------------------------------------------------ bounds
NumImages == 6
ShortList == 3
FlakyList == 2
MaxUserEvents == 2
FewUserEvents == 1
ShortPlay == 4
FlakyPlay == 5
MaxTimerEvents == 6
LongPlay == 12
MaxArg == 4
MaxSide == 3
MaxRequests == 3

\* ------------------------------------------------------- program constants
MAX_ERROR_COUNT == 5
cache_size == 5
DEFAULT_INTERVAL == 3000
RETRY_MS == 100

VARIABLES
    photos,         \* the lines of the list file (the server's list in remote mode)
    files,          \* what opening each file of the list gives: "ok", "bad", "trunc", "flaky"
    server_url,     \* TRUE in remote mode
    draw,           \* what randbelow returns to random.shuffle, position by position
    user_events,    \* the key presses and button clicks the user has yet to make
    timer_events,   \* the timers that have yet to expire while the window is open
    spinbox,        \* the text in the spinbox of the settings dialog when the user
                    \*   presses Apply
    config_ini,     \* the [Settings] section of config.ini: interval, is_fullscreen
    interval,       \* self.interval, in ms
    image_indexes,  \* playback index -> original index
    image_paths,    \* playback index -> path
    current_index,
    is_paused,
    is_fullscreen,
    error_count,
    image_cache,    \* the dict: playback index -> image
    load_queue,     \* Queue(): FIFO of playback indexes
    timer_id,       \* 0 is None, -1 the id of a timer that has run
    after_pending,  \* Tk's pending `after` callbacks: their delays
    bad_images_file, \* the bad images file, by the playback indexes its lines name
                    \*   ({}: self.bad_images_file is None, no file yet)
    label_image,    \* the image the label shows
    exiting,        \* Tk: a callback has raised SystemExit, which mainloop() raises
                    \*   again when the pass over the expired timers is over
    expired,        \* Tk: the pending timers that pass has yet to run
    pc,             \* controller: where the running callback stands
    handler,        \* controller: the callback that is running, "none" between two;
                    \*   "prev_skip" is show_previous_image past its failed load
    site,           \* controller: which caller the current load/display returns to
    image,          \* controller: local `image` of show_current_image
    ec_ctl,         \* controller: the value `error_count += 1` has read
    lpc,            \* loader: where the loop stands
    index,          \* loader: local `index`
    limage,         \* loader: local `image`
    ec_ldr,         \* loader: the value `error_count += 1` has read
    lused,          \* loader: the size the iterator over the keys was created with
    lpos,           \* loader: the keys that iterator has yielded
    lmin,           \* loader: the least key min() has been given so far
    oldest,         \* loader: local `oldest`
    h_from,         \* history: current_index when the running callback started
    h_streak,       \* history: the failed load attempts since the last one that succeeded
    h_fails,        \* history: the failed load attempts since the last load or display
                    \* that succeeded
    h_dup,          \* history: the loader has fetched for the request it took last, and
                    \*   the same index was then next in the queue
    slideshows,     \* server: the dict `slideshows`: key -> the paths of its list
    response,       \* server: the request answered last and the answer it got
    requests,       \* server: the requests received so far, in the order of their
                    \*   arrival, and how far the handler of each has come
    exif_image,     \* orientation: the opened image given to apply_exif_orientation
    exif_result     \* orientation: what it has returned

vars == <<photos, files, server_url, draw, user_events, timer_events, spinbox, exiting, expired,
          config_ini, interval, image_indexes, image_paths,
          current_index, is_paused, is_fullscreen, error_count, image_cache, load_queue,
          timer_id, after_pending, label_image, bad_images_file, pc, handler, site, image, ec_ctl,
          lpc, index, limage, ec_ldr, lused, lpos, lmin, oldest, h_from, h_streak, h_fails, h_dup,
          slideshows, response, requests, exif_image, exif_result>>

server == <<slideshows, response, requests>>
exif == <<exif_image, exif_result>>
env == <<photos, files, server_url, draw, spinbox, server, exif>>
events == <<user_events, timer_events>>
mainloop == <<exiting, expired>>
settings == <<config_ini, interval, is_fullscreen>>
order == <<image_indexes, image_paths>>
ctl_locals == <<site, image, ec_ctl>>
ldr == <<lpc, index, limage, ec_ldr, lused, lpos, lmin, oldest>>
hist == <<h_streak, h_fails, h_dup>>
timers == <<timer_id, after_pending>>

\* ----------------------------------------------------------------- images
NoImage == [file |-> -1, upright |-> FALSE]
NoIndex == -1

PathOf(o) == <<"photo", o>>
FileOfPath(p) == p[2]

N == Len(image_paths)

Min(S) == CHOOSE x \in S : \A y \in S : x <= y

\* random.shuffle: for i in reversed(range(1, n)): j = randbelow(i + 1); swap x[i], x[j]
\* r[i] is the j drawn for position i (0-based positions).
\* a swap that forgets to save x[i]: the item at j is written to both places
SwapLosesItem(x, i, j) == [x EXCEPT ![i + 1] = x[j + 1]]
Swap(x, i, j) == [x EXCEPT ![i + 1] = x[j + 1], ![j + 1] = x[i + 1]]

RECURSIVE ShuffleFrom(_, _, _)
ShuffleFrom(x, r, i) ==
    IF i < 1 THEN x ELSE ShuffleFrom(Swap(x, i, r[i]), r, i - 1)

Shuffle(x, r) == ShuffleFrom(x, r, Len(x) - 1)

\* the draws of one shuffle of n items
Draws(n) == {r \in [1 .. n - 1 -> 0 .. n - 1] : \A i \in 1 .. n - 1 : r[i] <= i}

\* ------------------------------------------------------------------ cache
\* A dict is the sequence of its <<key, value>> items in insertion order, the
\* order in which its keys are iterated: a new key goes last, a key stored
\* again keeps its place.
Keys(c) == {c[j][1] : j \in DOMAIN c}
HasKey(c, k) == \E j \in DOMAIN c : c[j][1] = k
ValueOf(c, k) == c[CHOOSE j \in DOMAIN c : c[j][1] = k][2]
KeyAt(c, j) == c[j][1]
\* a variant that drops the image of an index playback has moved past
StoreUnlessPassed(c, k, img) ==
    CASE k \notin {current_index, (current_index + 1) % Len(image_paths)} -> c
      [] \E j \in DOMAIN c : c[j][1] = k ->
            [j \in DOMAIN c |-> IF c[j][1] = k THEN <<k, img>> ELSE c[j]]
      [] OTHER -> Append(c, <<k, img>>)
Store(c, k, img) ==
    IF HasKey(c, k)
    THEN [j \in DOMAIN c |-> IF c[j][1] = k THEN <<k, img>> ELSE c[j]]
    ELSE Append(c, <<k, img>>)
Delete(c, k) == SelectSeq(c, LAMBDA item : item[1] # k)
Size(c) == Len(c)

\* ----------------------------------------------------- load_image_sync
\* The file a load of playback index i opens.
\* a request that addresses the server by the playback index itself
RemoteFileUnmapped(i) == FileOfPath(photos[i + 1])
RemoteFile(i) == FileOfPath(photos[image_indexes[i + 1] + 1])
\* a local load that opens the i-th line of the list as it was read
LocalFileUnshuffled(i) == FileOfPath(photos[i + 1])
LocalFile(i) == FileOfPath(image_paths[i + 1])
SourceFile(i) == IF server_url THEN RemoteFile(i) ELSE LocalFile(i)

\* whether Image.open / the request can succeed, can fail
CanSucceed(i) == files[SourceFile(i)] \in {"ok", "trunc", "flaky"}
CanFail(i) == files[SourceFile(i)] \in {"bad", "flaky"}
\* whether the pixels of an opened image decode: Image.open reads the header
\* only, transpose() and resize() read the pixels and raise when they are cut short
Decodes(img) == files[img.file] # "trunc"

\* every photo is stored turned, with the EXIF tag that says so
ImageOpen(i) == [file |-> SourceFile(i), upright |-> FALSE]
\* transpose() by the tag; when it raises, the image goes back as it was opened
apply_exif_orientation(img) ==
    IF Decodes(img) THEN [img EXCEPT !.upright = TRUE] ELSE img
Loaded(i) == apply_exif_orientation(ImageOpen(i))

\* history: one more failed attempt (counted up to the budget)
Bump(n) == IF n < MAX_ERROR_COUNT THEN n + 1 ELSE n

NextIndex(i) == (i + 1) % N
\* a previous() that aims one step back
PrevIndexOneBack(i) == (i - 1) % N
PrevIndex(i) == (i - 2) % N
ResumeIndex(i) == (i - 1) % N

\* ----------------------------------------------------------------- timers
\* Tk's table of pending `after` callbacks, all of them show_next_image.  Tk's
\* ids are opaque: a pending timer is named here by its position in the table,
\* the table lists the delays, the timer last created stands last and the
\* others stand sorted before it (as they stand, while `expired` names some of
\* them).  timer_id is 0 for None and -1 for the id of a timer that has
\* already run.
Sorted(pending) == IF exiting THEN pending ELSE SortSeq(pending, LAMBDA a, b : a < b)
Remove(pending, j) == [k \in 1 .. Len(pending) - 1 |-> IF k < j THEN pending[k] ELSE pending[k + 1]]

\* root.after(ms, show_next_image): the new table, and the id returned
After(pending, ms) == Append(Sorted(pending), ms)
AfterId(pending) == Len(pending) + 1

\* root.after_cancel(tid)
Cancel(pending, tid) == IF tid \in 1 .. Len(pending) THEN Remove(pending, tid) ELSE pending

\* stop_timer
StopTimer ==
    IF timer_id # 0
    THEN /\ after_pending' = Cancel(after_pending, timer_id)
         /\ timer_id' = 0
    ELSE UNCHANGED timers

\* Tk delivers one more key press or button click, one more expired timer
UserEvent == user_events > 0 /\ user_events' = user_events - 1
TimerEvent == timer_events > 0 /\ timer_events' = timer_events - 1

\* --------------------------------------------------------------- settings
\* config.ini as load_settings finds it: no file, or a [Settings] section
\* with the interval (ms) and the fullscreen flag
NoConfig == [exists |-> FALSE, interval |-> 0, is_fullscreen |-> FALSE]
Config(ms, fs) == [exists |-> TRUE, interval |-> ms, is_fullscreen |-> fs]

\* What the spinbox of the settings dialog holds when Apply is pressed.
\* from_=1 and to=60 bound its arrows only: the field takes any text the user
\* types, and neither the dialog nor apply_settings tests the number.  The
\* text is a number int() reads, or some other text.
SpinboxTexts == [numeric : BOOLEAN, value : Int]
Typed(secs) == [numeric |-> TRUE, value |-> secs]
NotANumber == [numeric |-> FALSE, value |-> 0]

\* load_settings: the defaults, or the values of the file; a missing file is
\* created with the defaults
load_settings(cfg) ==
    /\ interval = IF cfg.exists THEN cfg.interval ELSE DEFAULT_INTERVAL
    /\ is_fullscreen = IF cfg.exists THEN cfg.is_fullscreen ELSE FALSE
    /\ config_ini = IF cfg.exists THEN cfg ELSE Config(DEFAULT_INTERVAL, FALSE)

\* save_settings: the file is rewritten with the fields as they are
save_settings(ms, fs) == config_ini' = Config(ms, fs)

\* ------------------------------------------- apply_exif_orientation, pixels
\* An opened image: its size, its pixels by coordinate (x to the right, y
\* down, from 0), the value of EXIF tag 0x0112 (0: no tag) and whether the
\* pixel data are cut short. A pixel is named by the coordinate it has in the
\* file.
Coords(w, h) == (0 .. w - 1) \X (0 .. h - 1)
Picture(w, h, orientation, truncated) ==
    [w |-> w, h |-> h, px |-> [c \in Coords(w, h) |-> c],
     orientation |-> orientation, truncated |-> truncated]
NoPicture == [w |-> 0, h |-> 0, px |-> << >>, orientation |-> 0, truncated |-> FALSE]

Pictures ==
    {Picture(w, h, o, t) : w \in 1 .. MaxSide, h \in 1 .. MaxSide, o \in 0 .. 8, t \in BOOLEAN}

\* Image.transpose(method): the pixel that lands at <<x, y>> of the result
FLIP_LEFT_RIGHT(img) ==
    [img EXCEPT !.px = [c \in Coords(img.w, img.h) |-> img.px[<<img.w - 1 - c[1], c[2]>>]]]
FLIP_TOP_BOTTOM(img) ==
    [img EXCEPT !.px = [c \in Coords(img.w, img.h) |-> img.px[<<c[1], img.h - 1 - c[2]>>]]]
ROTATE_180(img) ==
    [img EXCEPT !.px = [c \in Coords(img.w, img.h) |->
                          img.px[<<img.w - 1 - c[1], img.h - 1 - c[2]>>]]]
\* a quarter turn counter-clockwise
ROTATE_90(img) ==
    [img EXCEPT !.w = img.h, !.h = img.w,
                !.px = [c \in Coords(img.h, img.w) |-> img.px[<<img.w - 1 - c[2], c[1]>>]]]
\* a variant that turns counter-clockwise where ROTATE_270 turns clockwise
ROTATE_270_AsRotate90(img) ==
    [img EXCEPT !.w = img.h, !.h = img.w,
                !.px = [c \in Coords(img.h, img.w) |-> img.px[<<img.w - 1 - c[2], c[1]>>]]]
\* three quarter turns counter-clockwise: a quarter turn clockwise
ROTATE_270(img) ==
    [img EXCEPT !.w = img.h, !.h = img.w,
                !.px = [c \in Coords(img.h, img.w) |-> img.px[<<c[2], img.h - 1 - c[1]>>]]]

\* the `if orientation == ...` chain (lines 583-597)
Oriented(img) ==
    CASE img.orientation = 2 -> FLIP_LEFT_RIGHT(img)
      [] img.orientation = 3 -> ROTATE_180(img)
      [] img.orientation = 4 -> FLIP_TOP_BOTTOM(img)
      [] img.orientation = 5 -> ROTATE_90(FLIP_LEFT_RIGHT(img))
      [] img.orientation = 6 -> ROTATE_270(img)
      [] img.orientation = 7 -> ROTATE_270(FLIP_LEFT_RIGHT(img))
      [] img.orientation = 8 -> ROTATE_90(img)
      [] OTHER -> img

\* apply_exif_orientation on pixels: no tag, the image as it is; transpose()
\* loads the pixel data and raises when they are cut short, and the except
\* branch returns the image as it is
OrientedByExif(img) ==
    CASE img.orientation = 0 -> img
      [] img.orientation \in 2 .. 8 /\ img.truncated -> img
      [] OTHER -> Oriented(img)

\* ---------------------------------------------------- server (server.py)
\* A key is the <key> segment of the URL: a stem, with or without ".txt".
Stems == {"album", "trip", "locked", "nokey"}
SlideshowKeys == [stem : Stems, txt : BOOLEAN]

\* `photos_file = key`, `if not photos_file.endswith('.txt'): photos_file = key + '.txt'`
ListFileName(key) == IF key.txt THEN key ELSE [key EXCEPT !.txt = TRUE]

\* The server's disk: the list files that exist, those open() can read, and
\* the lines of each.
ListExists(f) == f.stem \in {"album", "trip", "locked"}
ListReadable(f) == f.stem \in {"album", "trip"}
ListLines(f) ==
    IF f.stem = "album" THEN <<"a.jpg", "notes.txt", "gone.jpg", "raw">> ELSE <<"b.png">>

\* os.path.isfile(path)
IsFile(path) == path # "gone.jpg"
\* mimetypes.guess_type(path)[0], by the extension: major type, "" for None
ContentType(path) ==
    CASE path \in {"a.jpg", "gone.jpg", "b.png"} -> "image"
      [] path = "notes.txt" -> "text"
      [] OTHER -> ""
\* `content_type and content_type.startswith('image/')`
IsImageType(ct) == ct = "image"

\* the <image_index> segment: digits with an optional sign, or other text
IndexArgs ==
    {[numeric |-> TRUE, value |-> v] : v \in -1 .. MaxArg}
        \cup {[numeric |-> FALSE, value |-> 0]}

\* How a piece of handler code ends: it returns a body (status 200), or
\* raises. abort(code) raises an HTTPException, which is an Exception;
\* int() and open() raise ValueError, OSError (status 0: not an HTTP error).
Return(body) == [raised |-> FALSE, status |-> 200, body |-> body]
Abort(code) == [raised |-> TRUE, status |-> code, body |-> << >>]
Raise == [raised |-> TRUE, status |-> 0, body |-> << >>]

\* `except Exception as e: ... abort(500, ...)` around a try block
Except500(outcome) == IF outcome.raised THEN Abort(500) ELSE outcome

\* the try block of get_image_list up to the read (lines 16-22): what it
\* raises, or the lines read, which line 23 then stores
ListTry(key) ==
    CASE ~ListExists(ListFileName(key)) -> Abort(404)
      [] ListExists(ListFileName(key)) /\ ~ListReadable(ListFileName(key)) -> Raise
      [] OTHER -> Return(ListLines(ListFileName(key)))

\* the try block of get_image (lines 36-50), key being in slideshows
ImageTry(key, arg) ==
    LET image_paths_ == ValueOf(slideshows, key) IN
    CASE ~arg.numeric -> Raise
      [] arg.numeric /\ (arg.value < 0 \/ arg.value >= Len(image_paths_)) -> Abort(404)
      [] OTHER ->
           LET image_path == image_paths_[arg.value + 1] IN
           CASE ~IsFile(image_path) -> Abort(404)
             [] IsFile(image_path) /\ ~IsImageType(ContentType(image_path)) -> Abort(400)
             [] OTHER -> Return(<<image_path>>)

\* `known`: what the handler's own test `key not in slideshows` (line 14,
\* line 33) found when it ran
NoResponse ==
    [endpoint |-> "none", key |-> [stem |-> "nokey", txt |-> FALSE],
     arg |-> [numeric |-> FALSE, value |-> 0], known |-> FALSE, status |-> 0, body |-> << >>]
Answer(request, outcome) ==
    [endpoint |-> request.endpoint, key |-> request.key, arg |-> request.arg,
     known |-> request.known, status |-> outcome.status, body |-> outcome.body]

\* The development server (app.run, threaded) serves each request in a
\* thread of its own, and the threads share `slideshows` without a lock.
\* The thread of a request that has been answered:
Served ==
    [at |-> "served", endpoint |-> "none", key |-> NoResponse.key, arg |-> NoResponse.arg,
     known |-> FALSE, paths |-> << >>, outcome |-> Return(<< >>)]
\* a request as the route hands it to its handler
Request(endpoint, key, arg) ==
    [Served EXCEPT !.endpoint = endpoint, !.key = key, !.arg = arg]
\* the threads started so far, and whether the clients send one request more
Threads == DOMAIN requests
RequestEvent == Len(requests) < MaxRequests

\* ------------------------------------------------------------------- Init
ListOf(n) == [o \in 1 .. n |-> PathOf(o - 1)]

\* the draw that swaps each item with its left neighbour: it rotates the list
Rotation(n) == [i \in 1 .. n - 1 |-> i - 1]

AllOk(n) == [o \in 0 .. n - 1 |-> "ok"]
Flaky(n) == [o \in 0 .. n - 1 |-> "flaky"]
\* one file that may fail at any attempt, one whose header opens and whose
\* pixels do not decode
Mixed(n) == [o \in 0 .. n - 1 |-> CASE o = 2 -> "flaky" [] o = 4 -> "trunc" [] OTHER -> "ok"]
\* one file that never opens among good ones; one truncated file among good ones
OneBad(n) == [o \in 0 .. n - 1 |-> IF o = 0 THEN "bad" ELSE "ok"]
OneTrunc(n) == [o \in 0 .. n - 1 |-> IF o = 0 THEN "trunc" ELSE "ok"]
\* the truncated file is the last of the list: Rotation plays it first
TruncFirst(n) == [o \in 0 .. n - 1 |-> IF o = n - 1 THEN "trunc" ELSE "ok"]

\* the sessions explored (the list, its files, the mode, the draws of the
\* shuffle, config.ini as the program finds it, the keys the user presses, the
\* timers that expire while the window is open and the text the user leaves
\* in the spinbox of the settings dialog):
\*   short lists of good files, local and remote, under every draw of the shuffle;
\*   lists whose files may each load or fail at any attempt;
\*   a short list with one unreadable file, one with one truncated file, one
\*   whose first image played is truncated, this one with a config.ini;
\*   a list longer than the cache, remote, with a flaky and a truncated file,
\*   and a config.ini;
\*   a short list of good files with a spinbox text outside the range of the
\*   arrows, or one that is no number.
\* The spinbox holds a number of the range in the others, but for the list
\* with the truncated file, where it holds 0.
Session(n, f, u, r, cfg, keys, ticks, text) ==
    [photos |-> ListOf(n), files |-> f, server_url |-> u, draw |-> r, config |-> cfg,
     user_events |-> keys, timer_events |-> ticks, spinbox |-> text]
Sessions ==
    {Session(n, AllOk(n), u, r, NoConfig, MaxUserEvents, ShortPlay, Typed(5)) :
        n \in 1 .. ShortList, u \in BOOLEAN, r \in UNION {Draws(m) : m \in 1 .. ShortList}}
    \cup {Session(n, Flaky(n), FALSE, Rotation(n), NoConfig, FewUserEvents, FlakyPlay, Typed(60)) :
            n \in 1 .. FlakyList}
    \cup {Session(ShortList, OneBad(ShortList), FALSE, Rotation(ShortList), NoConfig,
                  MaxUserEvents, ShortPlay, Typed(1))}
    \cup {Session(ShortList, OneTrunc(ShortList), FALSE, Rotation(ShortList), NoConfig,
                  MaxUserEvents, ShortPlay, Typed(0))}
    \cup {Session(ShortList, TruncFirst(ShortList), FALSE, Rotation(ShortList),
                  Config(5000, TRUE), MaxUserEvents, ShortPlay, Typed(3))}
    \cup {Session(NumImages, Mixed(NumImages), TRUE, Rotation(NumImages), Config(5000, TRUE),
                  FewUserEvents, MaxTimerEvents, Typed(3))}
    \cup {Session(ShortList, AllOk(ShortList), FALSE, Rotation(ShortList), NoConfig,
                  MaxUserEvents, ShortPlay, text) :
            text \in {Typed(61), Typed(100), Typed(-3), NotANumber}}

\* the sessions played with no key pressed, for a longer time: the short list
\* with one unreadable file, which the cache holds whole, and the list longer
\* than the cache
PlaySessions ==
    {Session(ShortList, OneBad(ShortList), FALSE, Rotation(ShortList), NoConfig, 0,
             LongPlay, Typed(1)),
     Session(NumImages, Mixed(NumImages), TRUE, Rotation(NumImages), Config(5000, TRUE), 0,
             LongPlay, Typed(3))}

\* the state after construction up to the call of load_file_list (line 162),
\* for a session of S
InitOf(S) ==
    /\ \E s \in S :
         /\ DOMAIN s.draw = 1 .. Len(s.photos) - 1
         /\ photos = s.photos
         /\ files = s.files
         /\ server_url = s.server_url
         /\ draw = s.draw
         /\ load_settings(s.config)
         /\ user_events = s.user_events
         /\ timer_events = s.timer_events
         /\ spinbox = s.spinbox
    /\ spinbox \in SpinboxTexts
    /\ exiting = FALSE
    /\ expired = {}
    /\ image_indexes = << >>
    /\ image_paths = << >>
    /\ current_index = 0
    /\ is_paused = FALSE
    /\ error_count = 0
    /\ image_cache = << >>
    /\ load_queue = << >>
    /\ timer_id = 0
    /\ after_pending = << >>
    /\ label_image = NoImage
    /\ bad_images_file = {}
    /\ pc = "start"
    /\ handler = "none"
    /\ site = "none"
    /\ image = NoImage
    /\ ec_ctl = 0
    /\ lpc = "get"
    /\ index = NoIndex
    /\ limage = NoImage
    /\ ec_ldr = 0
    /\ lused = 0
    /\ lpos = 0
    /\ lmin = NoIndex
    /\ oldest = NoIndex
    /\ h_from = NoIndex
    /\ h_streak = 0
    /\ h_fails = 0
    /\ h_dup = FALSE
    /\ slideshows = << >>
    /\ response = NoResponse
    /\ requests = << >>

\* no image is being oriented
NoExif == exif_image = NoPicture /\ exif_result = NoPicture

Init == InitOf(Sessions) /\ NoExif

\* ------------------------------------------------------------- controller
\* Tk runs one callback at a time: h is running until pc is back at "idle"
Enter(h) ==
    /\ handler' = IF pc' \in {"idle", "exited"} THEN "none" ELSE h
    /\ h_from' = CASE pc' \in {"idle", "exited"} -> NoIndex
                   [] handler = "none" -> current_index
                   [] OTHER -> h_from
Returns == Enter(handler)

\* show_next_image's test `next_index not in self.image_cache`, current_index being cur
ShowNextEntry(cur) ==
    IF HasKey(image_cache, NextIndex(cur))
    THEN pc' = "sni_adv" /\ site' = "none"
    ELSE pc' = "load" /\ site' = "next"

\* show_current_image's test `self.current_index in self.image_cache`, for caller ctx
ShowCurrentEntry(cur, ctx) ==
    /\ site' = ctx
    /\ IF HasKey(image_cache, cur) THEN pc' = "sci_read" ELSE pc' = "load"

\* a variant in which the failure is swallowed and __init__ goes on to arm the timer
ListFailureArmsTimer ==
    /\ pc' = "nolist"
    /\ after_pending' = After(after_pending, interval)
    /\ timer_id' = AfterId(after_pending)
    /\ UNCHANGED <<order, current_index, site>>

\* load_file_list raises (request failed, status not ok, file missing or
\* unreadable): the exception leaves __init__ and ends the process before
\* root.mainloop()
ListFailure ==
    /\ pc' = "nolist"
    /\ UNCHANGED <<order, current_index, site, timers>>

\* __init__ from `self.load_file_list()` to the first test of show_current_image
\* (the loader waits on its empty queue all the while)
LoadFileList ==
    /\ pc = "start"
    /\ \E list_ok \in BOOLEAN :
         IF list_ok
         THEN /\ image_indexes' = Shuffle([i \in 1 .. Len(photos) |-> i - 1], draw)
              /\ image_paths' = [i \in 1 .. Len(photos) |-> photos[image_indexes'[i] + 1]]
              /\ current_index' = 0
              /\ ShowCurrentEntry(0, "init")
              /\ UNCHANGED timers
         ELSE ListFailure
    /\ Enter("init")
    /\ UNCHANGED <<env, mainloop, events, settings, bad_images_file, is_paused, error_count, image_cache,
                   load_queue, label_image, image, ec_ctl, ldr, hist>>

\* where a callback that returns leaves the main loop: waiting for the next
\* event, or in the pass that SystemExit has to leave
Rest == IF exiting THEN "exited" ELSE "idle"

\* the positions of S once the timer at position t has left the table
Shift(S, t) == {IF p > t THEN p - 1 ELSE p : p \in S \ {t}}

\* a pending timer expires and fires: Tk calls show_next_image, which runs up
\* to its test.  Once a callback has raised SystemExit, Tk still runs the
\* timers that had expired when the pass began.
TimerFire ==
    /\ TimerEvent
    /\ \E t \in 1 .. Len(after_pending) :
         /\ \/ pc = "idle"
            \/ pc = "exited" /\ t \in expired
         /\ after_pending' = Remove(after_pending, t)
         /\ timer_id' = CASE timer_id = t -> -1
                           [] timer_id > t -> timer_id - 1
                           [] OTHER -> timer_id
         /\ expired' = Shift(expired, t)
    /\ ShowNextEntry(current_index)
    /\ Enter("tick")
    /\ UNCHANGED <<env, exiting, user_events, settings, bad_images_file, order, current_index, is_paused, error_count,
                   image_cache, load_queue, label_image, image, ec_ctl, ldr, hist>>

\* show_previous_image, up to its test `prev_index not in self.image_cache`
show_previous_image ==
    /\ pc = "idle"
    /\ UserEvent
    /\ StopTimer
    /\ IF HasKey(image_cache, PrevIndex(current_index))
       THEN pc' = "prev_adv" /\ site' = "none"
       ELSE pc' = "load" /\ site' = "prev"
    /\ Enter("prev")
    /\ UNCHANGED <<env, mainloop, timer_events, settings, bad_images_file, order, current_index, is_paused, error_count,
                   image_cache, load_queue, label_image, image, ec_ctl, ldr, hist>>

\* toggle_pause: to paused, all of it; to playing, up to the call of show_next_image
toggle_pause ==
    /\ pc = "idle"
    /\ UserEvent
    /\ is_paused' = ~is_paused
    /\ IF is_paused'
       THEN StopTimer /\ UNCHANGED <<current_index, pc>>
       ELSE /\ current_index' = ResumeIndex(current_index)
            /\ pc' = "sni_test"
            /\ UNCHANGED timers
    /\ Enter("pause")
    /\ UNCHANGED <<env, mainloop, timer_events, settings, bad_images_file, order, error_count, image_cache,
                   load_queue, label_image, ctl_locals, ldr, hist>>

\* toggle_fullscreen, up to the test of show_current_image
toggle_fullscreen ==
    /\ pc = "idle"
    /\ UserEvent
    /\ is_fullscreen' = ~is_fullscreen
    /\ save_settings(interval, is_fullscreen')
    /\ ShowCurrentEntry(current_index, "fs")
    /\ Enter("fs")
    /\ UNCHANGED <<env, mainloop, timer_events, interval, bad_images_file, order, current_index, is_paused, error_count,
                   image_cache, load_queue, timers, label_image, image, ec_ctl, ldr, hist>>

\* the Apply button of the settings dialog: its command calls
\* apply_settings(int(spinbox.get()) * 1000, dialog).  int() raises ValueError
\* on a text that is no number: Tk reports it and apply_settings is not called.
apply_settings ==
    /\ pc = "idle"
    /\ UserEvent
    /\ IF spinbox.numeric
       THEN LET new_interval == spinbox.value * 1000 IN
              /\ interval' = new_interval
              /\ save_settings(new_interval, is_fullscreen)
       ELSE UNCHANGED <<config_ini, interval>>
    /\ UNCHANGED <<env, mainloop, timer_events, is_fullscreen, bad_images_file, order, current_index, is_paused,
                   error_count, image_cache, load_queue, timers, label_image, pc, handler,
                   h_from, ctl_locals, ldr, hist>>

\* the index the controller's pending load_image_sync call was given
LoadIndex ==
    CASE site = "prev" -> PrevIndex(current_index)
      [] site = "next" -> NextIndex(current_index)
      [] OTHER -> current_index

\* load_image_sync on the controller: the open; when it succeeds, the store in
\* the cache (line 301); when it fails, the read of `self.error_count += 1`
CtlLoad ==
    /\ pc = "load"
    /\ \/ /\ CanSucceed(LoadIndex)
          /\ image_cache' = Store(image_cache, LoadIndex, Loaded(LoadIndex))
          /\ image' = Loaded(LoadIndex)
          /\ pc' = "reset"
          /\ h_streak' = 0
          /\ h_fails' = 0
          /\ UNCHANGED ec_ctl
       \/ /\ CanFail(LoadIndex)
          /\ ec_ctl' = error_count
          /\ pc' = "fail_w"
          /\ h_streak' = Bump(h_streak)
          /\ h_fails' = Bump(h_fails)
          /\ UNCHANGED <<image_cache, image>>
    /\ Returns
    /\ UNCHANGED <<env, mainloop, events, settings, bad_images_file, order, current_index, is_paused, error_count,
                   load_queue, timers, label_image, site, ldr, h_dup>>

\* `self.error_count = 0` (line 302) and `return image`
CtlReset ==
    /\ pc = "reset"
    /\ error_count' = 0
    /\ CASE site = "prev" -> pc' = "prev_adv" /\ site' = "none" /\ image' = NoImage
         [] site = "next" -> pc' = "sni_adv" /\ site' = "none" /\ image' = NoImage
         [] OTHER -> pc' = "sci_pre" /\ UNCHANGED <<site, image>>
    /\ Returns
    /\ UNCHANGED <<env, mainloop, events, settings, bad_images_file, order, current_index, is_paused, image_cache,
                   load_queue, timers, label_image, ec_ctl, ldr, hist>>

\* the store of `self.error_count += 1` (line 306)
CtlFailWrite ==
    /\ pc = "fail_w"
    /\ error_count' = ec_ctl + 1
    /\ ec_ctl' = 0
    /\ pc' = "fail_t"
    /\ Returns
    /\ UNCHANGED <<env, mainloop, events, settings, bad_images_file, order, current_index, is_paused, image_cache,
                   load_queue, timers, label_image, site, image, ldr, hist>>

\* exit(1) on the main thread raises SystemExit, which leaves the callback.
\* Constructing, it ends the process before root.mainloop(); in a callback,
\* mainloop() raises it again once Tk's pass is over: at once after a key,
\* and after the other timers that had expired with the one that ran
ExitCalled ==
    /\ pc' = "exited"
    /\ exiting' = TRUE
    /\ CASE exiting -> UNCHANGED expired
         [] ~exiting /\ handler = "tick" ->
                expired' \in {S \in SUBSET (1 .. Len(after_pending)) :
                                 Cardinality(S) <= timer_events}
         [] OTHER -> expired' = {}

\* `if self.error_count == MAX_ERROR_COUNT` (line 307): exit(1), else None
\* goes back to the caller
CtlFailTest ==
    /\ pc = "fail_t"
    /\ IF error_count = MAX_ERROR_COUNT
       THEN ExitCalled /\ site' = "none"
       ELSE /\ CASE site = "prev" -> pc' = "prev_skip" /\ site' = "none"
                 [] site = "next" -> pc' = "sni_skip" /\ site' = "none"
                 [] OTHER -> pc' = "sci_fail" /\ UNCHANGED site
            /\ UNCHANGED mainloop
    /\ IF site = "prev" THEN Enter("prev_skip") ELSE Returns
    /\ UNCHANGED <<env, events, settings, bad_images_file, order, current_index, is_paused, error_count,
                   image_cache, load_queue, timers, label_image, image, ec_ctl, ldr, hist>>

\* show_previous_image: `self.current_index = prev_index` (line 327)
PrevAdvance ==
    /\ pc = "prev_adv"
    /\ current_index' = PrevIndex(current_index)
    /\ pc' = "sni_test"
    /\ Returns
    /\ UNCHANGED <<env, mainloop, events, settings, bad_images_file, order, is_paused, error_count, image_cache,
                   load_queue, timers, label_image, ctl_locals, ldr, hist>>

\* show_previous_image after its load failed:
\* `self.current_index = (prev_index + 1) % len(self.image_paths)` (line 323)
PrevSkip ==
    /\ pc = "prev_skip"
    /\ current_index' = NextIndex(PrevIndex(current_index))
    /\ pc' = "sni_test"
    /\ Returns
    /\ UNCHANGED <<env, mainloop, events, settings, bad_images_file, order, is_paused, error_count, image_cache,
                   load_queue, timers, label_image, ctl_locals, ldr, hist>>

\* show_next_image called by show_previous_image or toggle_pause: its test
NextTest ==
    /\ pc = "sni_test"
    /\ ShowNextEntry(current_index)
    /\ Returns
    /\ UNCHANGED <<env, mainloop, events, settings, bad_images_file, order, current_index, is_paused, error_count,
                   image_cache, load_queue, timers, label_image, image, ec_ctl, ldr, hist>>

\* show_next_image after its load failed: `self.current_index = next_index`
\* and the retry timer (lines 351-353)
NextSkip ==
    /\ pc = "sni_skip"
    /\ current_index' = NextIndex(current_index)
    /\ after_pending' = After(after_pending, RETRY_MS)
    /\ timer_id' = AfterId(after_pending)
    /\ pc' = Rest
    /\ Returns
    /\ UNCHANGED <<env, mainloop, events, settings, bad_images_file, order, is_paused, error_count, image_cache,
                   load_queue, label_image, ctl_locals, ldr, hist>>

\* show_next_image: `self.current_index = next_index` (line 355)
NextAdvance ==
    /\ pc = "sni_adv"
    /\ current_index' = NextIndex(current_index)
    /\ pc' = "sci_test"
    /\ site' = "tick"
    /\ Returns
    /\ UNCHANGED <<env, mainloop, events, settings, bad_images_file, order, is_paused, error_count, image_cache,
                   load_queue, timers, label_image, image, ec_ctl, ldr, hist>>

\* show_current_image called by show_next_image: its test
ShowTest ==
    /\ pc = "sci_test"
    /\ ShowCurrentEntry(current_index, site)
    /\ Returns
    /\ UNCHANGED <<env, mainloop, events, settings, bad_images_file, order, current_index, is_paused, error_count,
                   image_cache, load_queue, timers, label_image, image, ec_ctl, ldr, hist>>

\* `image = self.image_cache[self.current_index]` (line 660); KeyError when
\* the entry has gone since the test
ShowCached ==
    /\ pc = "sci_read"
    /\ IF HasKey(image_cache, current_index)
       THEN image' = ValueOf(image_cache, current_index) /\ pc' = "sci_pre"
       ELSE UNCHANGED image /\ pc' = "sci_fail"
    /\ Returns
    /\ UNCHANGED <<env, mainloop, events, settings, bad_images_file, order, current_index, is_paused, error_count,
                   image_cache, load_queue, timers, label_image, site, ec_ctl, ldr, hist>>

\* what the caller does once show_current_image has returned
\* (pend, tid: the timers as show_current_image left them)
ShowCurrentReturn(pend, tid) ==
    CASE site = "init" ->
            /\ after_pending' = After(pend, interval)
            /\ timer_id' = AfterId(pend)
            /\ pc' = "idle"
      [] site = "tick" ->
            /\ after_pending' = pend
            /\ timer_id' = tid
            /\ pc' = "sni_tail"
      [] OTHER ->
            /\ after_pending' = pend
            /\ timer_id' = tid
            /\ pc' = "idle"

\* preload_next_image, called with current_index = cur
Preload(cur) ==
    IF HasKey(image_cache, NextIndex(cur))
    THEN load_queue
    ELSE Append(load_queue, NextIndex(cur))

\* show_current_image holding its image: preload_next_image (line 672), then
\* resize and the label (lines 700-707); resize raises on pixels that do not decode
ShowLoaded ==
    /\ pc = "sci_pre"
    /\ load_queue' = Preload(current_index)
    /\ IF Decodes(image)
       THEN /\ label_image' = image
            /\ h_fails' = 0
            /\ ShowCurrentReturn(after_pending, timer_id)
            /\ site' = "none"
       ELSE /\ pc' = "sci_fail"
            /\ UNCHANGED <<label_image, h_fails, timers, site>>
    /\ image' = NoImage
    /\ Returns
    /\ UNCHANGED <<env, mainloop, events, settings, bad_images_file, order, current_index, is_paused, error_count,
                   image_cache, ec_ctl, ldr, h_streak, h_dup>>

\* the except branch of show_current_image: the line in the bad images file,
\* the skip to the next index and the retry timer (lines 709-727)
ShowCurrentFail ==
    /\ pc = "sci_fail"
    /\ bad_images_file' = bad_images_file \cup {current_index}
    /\ current_index' = NextIndex(current_index)
    /\ ShowCurrentReturn(After(after_pending, RETRY_MS), AfterId(after_pending))
    /\ site' = "none"
    /\ Returns
    /\ UNCHANGED <<env, mainloop, events, settings, order, is_paused, error_count, image_cache, load_queue,
                   label_image, image, ec_ctl, ldr, hist>>

\* show_next_image after show_current_image: re-arm unless paused, preload
NextTail ==
    /\ pc = "sni_tail"
    /\ IF ~is_paused
       THEN /\ after_pending' = After(after_pending, interval)
            /\ timer_id' = AfterId(after_pending)
       ELSE UNCHANGED timers
    /\ load_queue' = Preload(current_index)
    /\ pc' = Rest
    /\ Returns
    /\ UNCHANGED <<env, mainloop, events, settings, bad_images_file, order, current_index, is_paused, error_count,
                   image_cache, label_image, ctl_locals, ldr, hist>>

\* SystemExit leaves root.mainloop() (or __init__) once no expired timer is
\* left to run; the interpreter shuts down and the daemon thread with it
Finalize ==
    /\ pc = "exited"
    /\ expired = {}
    /\ pc' = "ended"
    /\ UNCHANGED <<env, mainloop, events, settings, bad_images_file, order, current_index, is_paused, error_count,
                   image_cache, load_queue, timers, label_image, handler, h_from, ctl_locals,
                   ldr, hist>>

\* the Escape key: root.quit() makes root.mainloop() return, the script ends
\* and the daemon thread with it
Escape ==
    /\ pc = "idle"
    /\ UserEvent
    /\ pc' = "ended"
    /\ UNCHANGED <<env, mainloop, timer_events, settings, bad_images_file, order, current_index,
                   is_paused, error_count, image_cache, load_queue, timers, label_image,
                   handler, h_from, ctl_locals, ldr, hist>>

\* ----------------------------------------------------------------- loader
\* the daemon thread runs until the process has ended
Alive == pc \notin {"ended", "nolist"}

\* what a loader step leaves alone, the cache, the counter and the queue apart
ControllerState ==
    <<env, mainloop, events, settings, bad_images_file, order, current_index, is_paused, timers, label_image,
      pc, handler, h_from, ctl_locals>>

\* history of duplicate requests: the loader takes the head of q and, when
\* fetch, goes on to load it; the result tells whether it loads it while the
\* same index stands next in q, requested before this one was taken
Taken(q, fetch) == fetch /\ Len(q) > 1 /\ q[2] = Head(q)

\* `index = self.load_queue.get()` and `if index not in self.image_cache`
LoaderGet ==
    /\ Alive /\ lpc = "get"
    /\ load_queue # << >>
    /\ load_queue' = Tail(load_queue)
    /\ IF HasKey(image_cache, Head(load_queue))
       THEN UNCHANGED <<lpc, index>>
       ELSE lpc' = "load" /\ index' = Head(load_queue)
    /\ h_dup' = Taken(load_queue, ~HasKey(image_cache, Head(load_queue)))
    /\ UNCHANGED <<ControllerState, error_count, image_cache, limage, ec_ldr, lused, lpos, lmin,
                   oldest, h_streak, h_fails>>

\* load_image_sync on the loader thread: the open; when it succeeds, the store
\* in the cache (line 301); when it fails, the read of `self.error_count += 1`
LoaderLoad ==
    /\ Alive /\ lpc = "load"
    /\ \/ /\ CanSucceed(index)
          /\ image_cache' = Store(image_cache, index, Loaded(index))
          /\ limage' = Loaded(index)
          /\ lpc' = "reset"
          /\ h_streak' = 0
          /\ h_fails' = 0
          /\ UNCHANGED ec_ldr
       \/ /\ CanFail(index)
          /\ ec_ldr' = error_count
          /\ lpc' = "fail_w"
          /\ h_streak' = Bump(h_streak)
          /\ h_fails' = Bump(h_fails)
          /\ UNCHANGED <<image_cache, limage>>
    /\ UNCHANGED <<ControllerState, error_count, load_queue, index, lused, lpos, lmin, oldest, h_dup>>

\* `self.error_count = 0` (line 302) and `return image`
LoaderReset ==
    /\ Alive /\ lpc = "reset"
    /\ error_count' = 0
    /\ lpc' = "store"
    /\ UNCHANGED <<ControllerState, image_cache, load_queue, index, limage, ec_ldr, lused, lpos, lmin,
                   oldest, hist>>

\* the store of `self.error_count += 1` (line 306)
LoaderFailWrite ==
    /\ Alive /\ lpc = "fail_w"
    /\ error_count' = ec_ldr + 1
    /\ ec_ldr' = 0
    /\ lpc' = "fail_t"
    /\ UNCHANGED <<ControllerState, image_cache, load_queue, index, limage, lused, lpos, lmin,
                   oldest, hist>>

\* `if self.error_count == MAX_ERROR_COUNT` (line 307): exit(1) on the loader
\* thread raises SystemExit there, which ends the thread and leaves the
\* process running; else None goes back and `if image:` skips the store
LoaderFailTest ==
    /\ Alive /\ lpc = "fail_t"
    /\ IF error_count = MAX_ERROR_COUNT
       THEN lpc' = "dead" /\ index' = NoIndex
       ELSE lpc' = "size" /\ UNCHANGED index
    /\ UNCHANGED <<ControllerState, error_count, image_cache, load_queue, limage, ec_ldr,
                   lused, lpos, lmin, oldest, hist>>

\* `if image: self.image_cache[index] = image` (line 645)
LoaderStore ==
    /\ Alive /\ lpc = "store"
    /\ image_cache' = Store(image_cache, index, limage)
    /\ lpc' = "size"
    /\ UNCHANGED <<ControllerState, error_count, load_queue, index, limage, ec_ldr, lused, lpos, lmin,
                   oldest, hist>>

\* `if len(self.image_cache) > self.cache_size` (line 649) and, when it is,
\* the iterator over the keys that min() is given (line 650)
LoaderSize ==
    /\ Alive /\ lpc = "size"
    /\ IF Size(image_cache) > cache_size
       THEN /\ lpc' = "min"
            /\ lused' = Size(image_cache)
            /\ UNCHANGED <<index, limage>>
       ELSE /\ lpc' = "get"
            /\ index' = NoIndex
            /\ limage' = NoImage
            /\ UNCHANGED lused
    /\ UNCHANGED <<ControllerState, error_count, image_cache, load_queue, ec_ldr, lpos, lmin,
                   oldest, h_streak, h_fails, h_dup>>

\* the loader leaves line 650: with the least key, to the `del`, or by an
\* exception, which the `except Exception` of line 652 takes
MinReturns(k) == lpc' = "del" /\ oldest' = k
MinRaises == lpc' = "get" /\ UNCHANGED oldest

\* min(k for k in self.image_cache.keys() if k != self.current_index), one
\* key at a time: the iterator raises RuntimeError when the dict has changed
\* size since it was created; else it yields its next key, which is compared
\* with current_index as it is by then; past the last key min() returns, and
\* raises ValueError when it was given no key
LoaderMin ==
    /\ Alive /\ lpc = "min"
    /\ CASE Size(image_cache) # lused ->
                MinRaises /\ lpos' = 0 /\ lmin' = NoIndex
         [] Size(image_cache) = lused /\ lpos < lused ->
                LET k == KeyAt(image_cache, lpos + 1) IN
                /\ lpos' = lpos + 1
                /\ lmin' = IF k # current_index /\ (lmin = NoIndex \/ k < lmin)
                           THEN k ELSE lmin
                /\ UNCHANGED <<lpc, oldest>>
         [] OTHER ->
                /\ IF lmin = NoIndex THEN MinRaises ELSE MinReturns(lmin)
                /\ lpos' = 0 /\ lmin' = NoIndex
    /\ lused' = IF lpc' = "min" THEN lused ELSE 0
    /\ IF lpc' = "get"
       THEN index' = NoIndex /\ limage' = NoImage
       ELSE UNCHANGED <<index, limage>>
    /\ UNCHANGED <<ControllerState, error_count, image_cache, load_queue, ec_ldr,
                   h_streak, h_fails, h_dup>>

\* `del self.image_cache[oldest]`
LoaderDelete ==
    /\ Alive /\ lpc = "del"
    /\ image_cache' = Delete(image_cache, oldest)
    /\ oldest' = NoIndex
    /\ index' = NoIndex
    /\ limage' = NoImage
    /\ lpc' = "get"
    /\ UNCHANGED <<ControllerState, error_count, load_queue, ec_ldr, lused, lpos, lmin, hist>>

Next ==
    \/ LoadFileList
    \/ TimerFire
    \/ show_previous_image
    \/ toggle_pause
    \/ toggle_fullscreen
    \/ apply_settings
    \/ CtlLoad
    \/ CtlReset
    \/ CtlFailWrite
    \/ CtlFailTest
    \/ PrevAdvance
    \/ PrevSkip
    \/ NextTest
    \/ NextSkip
    \/ NextAdvance
    \/ ShowTest
    \/ ShowCached
    \/ ShowLoaded
    \/ ShowCurrentFail
    \/ NextTail
    \/ Finalize
    \/ Escape
    \/ LoaderGet
    \/ LoaderLoad
    \/ LoaderReset
    \/ LoaderFailWrite
    \/ LoaderFailTest
    \/ LoaderStore
    \/ LoaderSize
    \/ LoaderMin
    \/ LoaderDelete

Spec == Init /\ [][Next]_vars

\* playback with no key pressed: the Tk main loop runs the timer callbacks and
\* runs each of them to its end, and the loader thread is scheduled
TimerCallback ==
    \/ LoadFileList
    \/ TimerFire
    \/ CtlLoad
    \/ CtlReset
    \/ CtlFailWrite
    \/ CtlFailTest
    \/ NextSkip
    \/ NextAdvance
    \/ ShowTest
    \/ ShowCached
    \/ ShowLoaded
    \/ ShowCurrentFail
    \/ NextTail
    \/ Finalize

LoaderThread ==
    \/ LoaderGet
    \/ LoaderLoad
    \/ LoaderReset
    \/ LoaderFailWrite
    \/ LoaderFailTest
    \/ LoaderStore
    \/ LoaderSize
    \/ LoaderMin
    \/ LoaderDelete

PlayInit == InitOf(PlaySessions) /\ NoExif
PlayNext == TimerCallback \/ LoaderThread
PlaySpec ==
    PlayInit /\ [][PlayNext]_vars /\ WF_vars(TimerCallback) /\ WF_vars(LoaderThread)

\* playback in which the only key pressed is space: a list longer than the
\* cache whose files all open, and a list whose files may each load or fail
PauseSessions ==
    {Session(NumImages, OneTrunc(NumImages), TRUE, Rotation(NumImages), Config(5000, TRUE),
             MaxUserEvents, MaxTimerEvents, Typed(3)),
     Session(FlakyList, Flaky(FlakyList), FALSE, Rotation(FlakyList), NoConfig, MaxUserEvents,
             FlakyPlay, Typed(3))}
PauseInit == InitOf(PauseSessions) /\ NoExif
PauseNext == TimerCallback \/ LoaderThread \/ toggle_pause \/ NextTest
PauseSpec == PauseInit /\ [][PauseNext]_vars

\* ------------------------------------------------------------------ server
client == <<photos, files, server_url, draw, spinbox, events, mainloop, settings, order, current_index, is_paused,
            error_count, image_cache, load_queue, timers, label_image, bad_images_file,
            pc, handler, h_from, ctl_locals, ldr, hist>>

\* a request arrives and its thread takes the first step of the handler
Start(request) == RequestEvent /\ requests' = Append(requests, request)
\* a later step of thread t: its place in the handler and the handler's
\* locals change as given
Serve(t, request) == requests' = [requests EXCEPT ![t] = request]
\* thread t serves a request of that endpoint and has come to `at`
At(t, endpoint, at) == requests[t].endpoint = endpoint /\ requests[t].at = at

\* GET /api/slideshow/<key>/list arrives, and its thread tests
\* `key not in slideshows` (line 14)
ListTest ==
    /\ \E key \in SlideshowKeys :
         LET known == HasKey(slideshows, key) IN
         Start([Request("list", key, NoResponse.arg) EXCEPT
                    !.known = known,
                    !.at = IF known THEN "answer" ELSE "read"])
    /\ UNCHANGED <<client, exif, slideshows, response>>

\* lines 15-22 and 25-27: the list file is looked up and read; abort(404)
\* and what open() raises both end in abort(500)
ListRead(t) ==
    /\ At(t, "list", "read")
    /\ LET outcome == Except500(ListTry(requests[t].key)) IN
       Serve(t, IF outcome.raised
                THEN [requests[t] EXCEPT !.outcome = outcome, !.at = "respond"]
                ELSE [requests[t] EXCEPT !.paths = outcome.body, !.at = "store"])
    /\ UNCHANGED <<client, exif, slideshows, response>>

\* line 23: slideshows[key] = paths
ListStore(t) ==
    /\ At(t, "list", "store")
    /\ slideshows' = Store(slideshows, requests[t].key, requests[t].paths)
    /\ Serve(t, [requests[t] EXCEPT !.at = "answer"])
    /\ UNCHANGED <<client, exif, response>>

\* line 28: return jsonify(slideshows[key])
ListAnswer(t) ==
    /\ At(t, "list", "answer")
    /\ response' = Answer(requests[t], Return(ValueOf(slideshows, requests[t].key)))
    /\ Serve(t, Served)
    /\ UNCHANGED <<client, exif, slideshows>>

\* GET /api/slideshow/<key>/image/<image_index> arrives, and its thread
\* tests `key not in slideshows` (line 33); abort(404) of line 34 is raised
\* outside the try block
ImageTest ==
    /\ \E key \in SlideshowKeys, arg \in IndexArgs :
         LET known == HasKey(slideshows, key) IN
         Start([Request("image", key, arg) EXCEPT
                    !.known = known,
                    !.outcome = IF known THEN Served.outcome ELSE Abort(404),
                    !.at = IF known THEN "try" ELSE "respond"])
    /\ UNCHANGED <<client, exif, slideshows, response>>

\* lines 35-54: image_paths = slideshows[key] and the rest of the try block,
\* with its except clause
ImageRead(t) ==
    /\ At(t, "image", "try")
    /\ Serve(t, [requests[t] EXCEPT
                     !.outcome = Except500(ImageTry(requests[t].key, requests[t].arg)),
                     !.at = "respond"])
    /\ UNCHANGED <<client, exif, slideshows, response>>

\* the answer of a handler that has raised or returned reaches the client
Respond(t) ==
    /\ requests[t].at = "respond"
    /\ response' = Answer(requests[t], requests[t].outcome)
    /\ Serve(t, Served)
    /\ UNCHANGED <<client, exif, slideshows>>

\* GET /api/slideshow/<key>/list: a step of one of the threads serving it
get_image_list ==
    \/ ListTest
    \/ \E t \in Threads :
        \/ ListRead(t)
        \/ ListStore(t)
        \/ ListAnswer(t)
        \/ At(t, "list", "respond") /\ Respond(t)

\* GET /api/slideshow/<key>/image/<image_index>: a step of one of the
\* threads serving it
get_image ==
    \/ ImageTest
    \/ \E t \in Threads :
        \/ ImageRead(t)
        \/ At(t, "image", "respond") /\ Respond(t)

\* the server alone, with a remote client that has not started; the steps
\* of the handlers running at the same time interleave
ServerInit == InitOf({s \in Sessions : s.server_url /\ Len(s.photos) = NumImages}) /\ NoExif
ServerNext == get_image_list \/ get_image
ServerSpec == ServerInit /\ [][ServerNext]_vars

\* ------------------------------------------------------------- orientation
\* `image = self.apply_exif_orientation(image)` (line 299) on an opened image
ApplyExifOrientation ==
    /\ exif_image # NoPicture /\ exif_result = NoPicture
    /\ exif_result' = OrientedByExif(exif_image)
    /\ UNCHANGED <<client, server, exif_image>>

\* the function alone, on every picture up to MaxSide by MaxSide
ExifInit ==
    /\ InitOf({s \in Sessions : ~s.server_url /\ s.files = OneTrunc(ShortList)})
    /\ exif_image \in Pictures
    /\ exif_result = NoPicture
ExifSpec == ExifInit /\ [][ApplyExifOrientation]_vars

\* ============================================================= properties
ListLoaded == pc \notin {"start", "nolist"}

\* a load_image_sync call returns an image in this step
CtlLoadOk == pc = "reset" /\ pc' # "reset"
LoaderLoadOk == lpc = "reset" /\ lpc' # "reset"
\* a load_image_sync call has failed and has not yet counted the failure and
\* tested the count
Counting == pc \in {"fail_w", "fail_t"} \/ lpc \in {"fail_w", "fail_t"}
\* the process has left the main loop by exit(1)
Terminated == exiting \/ pc = "ended"
\* the loader is between its load and the end of the eviction that follows
Inserting == lpc \in {"reset", "store", "size", "min", "del"}

\* C1: the image cache never holds more than cache_size entries, once the
\* loader is past the eviction that follows its own insertion.
C1_CacheBounded ==
    ~Inserting => Size(image_cache) <= cache_size

\* C2: once five loads in a row have failed, on whichever thread, and the
\* failing call has counted its failure, the session has terminated.
C2_FifthFailureTerminates ==
    (h_streak >= MAX_ERROR_COUNT /\ ~Counting) => Terminated

\* C3: the session is terminated by the error budget only when the five most
\* recent load attempts all failed, with no image loaded or displayed
\* successfully among them.
C3_ExitOnlyAfterFiveFailures ==
    [][(pc = "fail_t" /\ pc' = "exited") => h_fails >= MAX_ERROR_COUNT]_vars

\* C4: while the controller rests between two handlers, so that current_index
\* is the index of the image on display, no step of the loader removes the
\* cache entry of current_index.
C4_CurrentEntryKept ==
    [][(pc = "idle" /\ pc' = "idle" /\ HasKey(image_cache, current_index))
          => HasKey(image_cache', current_index)]_vars

\* C5: the queue and the loader's fetch in flight hold at most one request
\* for each playback index.
InFlight(i) == lpc \in {"load", "fail_w", "fail_t"} /\ index = i
Requests(i) ==
    Cardinality({j \in 1 .. Len(load_queue) : load_queue[j] = i})
        + (IF InFlight(i) THEN 1 ELSE 0)
C5_OneRequestPerIndex == \A i \in 0 .. N - 1 : Requests(i) <= 1

\* C6: when an index was requested twice before the loader took the first
\* request, and the loader fetched for the first, it does not fetch for the
\* second.
C6_OneFetchForDuplicate ==
    [][~(h_dup /\ lpc = "get" /\ lpc' = "load")]_vars

\* C7: error_count decreases only when a successful load sets it to 0, and
\* it is 0 right after every successful load.
C7_CounterMonotonic ==
    [][/\ error_count' < error_count => (error_count' = 0 /\ (CtlLoadOk \/ LoaderLoadOk))
       /\ (CtlLoadOk \/ LoaderLoadOk) => error_count' = 0]_vars

\* C8: the playback order built at start holds every value of 0 .. N-1 exactly
\* once, image_paths lists the paths in that order, and no step taken after
\* the start changes image_indexes or image_paths.
IsPermutation(x, n) ==
    /\ Len(x) = n
    /\ \A v \in 0 .. n - 1 : Cardinality({i \in 1 .. n : x[i] = v}) = 1
C8_PermutationFixed ==
    [][/\ ListLoaded' => /\ IsPermutation(image_indexes', Len(photos))
                      /\ image_paths' = [i \in 1 .. Len(photos) |->
                                            photos[image_indexes'[i] + 1]]
       /\ ListLoaded => UNCHANGED order]_vars
C8_Witness ==
    /\ pc = "idle" /\ N = 3
    /\ image_indexes = <<1, 2, 0>>
    /\ current_index = 2 /\ is_paused /\ is_fullscreen
    /\ Size(image_cache) = 3

\* C9: every cache entry is the image of the original index its key stands
\* for in the playback order, as apply_exif_orientation returns it.
NormalizedImageOf(i) ==
    apply_exif_orientation([file |-> image_indexes[i + 1], upright |-> FALSE])
C9_CacheEntryIsOwnImage ==
    \A k \in Keys(image_cache) :
        k \in 0 .. N - 1 /\ ValueOf(image_cache, k) = NormalizedImageOf(k)
\* a full cache of a remote session, after the entry of the first image has
\* been evicted
C9_Witness ==
    /\ server_url /\ pc = "idle" /\ lpc = "get"
    /\ Size(image_cache) = cache_size
    /\ ~HasKey(image_cache, 0)
    /\ image_indexes[1] # 0

\* C10: a timer tick while playing that has its target image in hand, from
\* the cache or from a load that succeeded, makes the target current, shows
\* it, arms one timer of `interval` ms and requests the image after it
\* unless that one is cached.  (A step that changes pc is the controller's.)
TickHasImage == handler = "tick" /\ ~is_paused /\ pc = "sci_pre"
C10_TickShowsNext ==
    [][/\ (handler = "tick" /\ pc = "sni_adv" /\ pc' # pc)
            => current_index' = NextIndex(current_index)
       /\ (TickHasImage /\ pc' # pc)
            => /\ label_image' = NormalizedImageOf(current_index)
               /\ current_index' = current_index
               /\ pc' = "sni_tail"
       /\ (handler = "tick" /\ ~is_paused /\ pc = "sni_tail" /\ pc' # pc)
            => /\ after_pending' = After(after_pending, interval)
               /\ timer_id' = AfterId(after_pending)
               /\ \/ HasKey(image_cache, NextIndex(current_index))
                  \/ \E j \in 1 .. Len(load_queue') :
                        load_queue'[j] = NextIndex(current_index)]_vars

\* the running callback returns in this step
CallbackEnds == pc # "idle" /\ pc' = "idle"
\* no file of the session can fail to open
NoLoadFails == \A o \in DOMAIN files : files[o] \in {"ok", "trunc"}
\* the file of playback index i always opens and decodes
Loadable(i) == files[image_indexes[i + 1]] = "ok"

RECURSIVE NextTimes(_, _)
NextTimes(c, k) == IF k = 0 THEN c ELSE NextTimes(NextIndex(c), k - 1)

\* C11: when no load can fail, every tick ends one index further, modulo N,
\* and N such steps lead from any index back to it; with N = 3 they visit
\* 1, 2, 0 from 0.
C11_TicksWrapAround ==
    [][(NoLoadFails /\ handler = "tick" /\ CallbackEnds)
          => /\ current_index' = NextIndex(h_from)
             /\ NextTimes(h_from, N) = h_from
             /\ N = 3 => <<NextTimes(0, 1), NextTimes(0, 2), NextTimes(0, 3)>>
                              = <<1, 2, 0>>]_vars

\* C12: previous() called at index c, when the file of (c - 1) mod N always
\* opens and decodes, ends with current_index = (c - 1) mod N and that image
\* on the label.
C12_PreviousShowsOneBack ==
    [][(handler \in {"prev", "prev_skip"} /\ CallbackEnds
            /\ Loadable((h_from - 1) % N))
          => /\ current_index' = (h_from - 1) % N
             /\ label_image' = NormalizedImageOf((h_from - 1) % N)]_vars

\* C13, as stated: a previous() called at c whose own load failed ends with
\* current_index two past c.
C13_SkipEndsTwoAhead ==
    [][(handler = "prev_skip" /\ CallbackEnds)
          => current_index' = (h_from + 2) % N]_vars
\* C13, amended: it ends at c itself, two past the index (c - 2) mod N whose
\* load failed, or at (c + 1) mod N when the display of c has failed, which
\* the bad images file records.
C13_SkipEndsAtStart ==
    [][(handler = "prev_skip" /\ CallbackEnds)
          => \/ current_index' = h_from
             \/ /\ current_index' = NextIndex(h_from)
                /\ h_from \in bad_images_file']_vars
C13_Witness ==
    /\ handler = "prev_skip" /\ pc = "sni_tail" /\ N = 3
    /\ current_index = h_from
    /\ label_image = NormalizedImageOf(h_from)

\* C14: when toggle_pause takes the show from playing to paused, no timer is
\* left pending, so that no tick can run before the next user event.
C14_PauseLeavesNoTimer ==
    [][(pc = "idle" /\ ~is_paused /\ is_paused') => after_pending' = << >>]_vars

\* C15: toggle_pause from paused to playing, when the file of the current
\* index always opens and decodes, ends with current_index as it was while
\* paused, that image on the label and one more timer, of `interval` ms,
\* which is the one timer_id names.
C15_ResumeKeepsIndex ==
    [][(handler = "pause" /\ CallbackEnds /\ Loadable(h_from))
          => /\ current_index' = h_from
             /\ label_image' = NormalizedImageOf(h_from)
             /\ after_pending' = After(after_pending, interval)
             /\ timer_id' = AfterId(after_pending)]_vars

\* C16: no step of toggle_fullscreen (a step that moves pc while the callback
\* starts or runs) changes current_index, is_paused, the timers, the cache,
\* the queue or error_count.
C16_FullscreenFrame ==
    [][((handler = "fs" \/ handler' = "fs") /\ pc' # pc)
          => UNCHANGED <<current_index, is_paused, timers, image_cache,
                         load_queue, error_count>>]_vars

\* the entry inserted earliest among those whose key is not cur
EarliestInserted(c, cur) == KeyAt(c, Min({j \in DOMAIN c : KeyAt(c, j) # cur}))

\* C17: when the cache has grown larger than cache_size and the loader leaves
\* its search for a victim, one entry has been chosen and it is, among the
\* entries whose key is not current_index, the one inserted earliest.
C17_EvictsOldestInserted ==
    [][(lpc = "min" /\ lpc' # "min")
          => /\ lpc' = "del"
             /\ oldest' = EarliestInserted(image_cache, current_index)]_vars

\* C18: a load failure has its line in the bad images file: when
\* load_image_sync has returned None to show_previous_image, to
\* show_next_image or to the loader the file names the index it was given,
\* when show_current_image has taken its except branch the file names the
\* index it was to show, and no step removes a line.
C18_FailureLogged ==
    [][/\ (pc = "fail_t" /\ pc' \in {"prev_skip", "sni_skip"})
            => LoadIndex \in bad_images_file'
       /\ (lpc = "fail_t" /\ lpc' = "size") => index \in bad_images_file'
       /\ (pc = "sci_fail" /\ pc' # pc) => current_index \in bad_images_file'
       /\ bad_images_file \subseteq bad_images_file']_vars

\* the index a failing step has failed at: the argument of the load that
\* returns None, or current_index when show_current_image fails
FailedIndex == IF pc = "sni_skip" THEN NextIndex(current_index) ELSE current_index

\* a step in which a tick's own load fails, or show_current_image takes its
\* except branch (initial display, tick or redisplay)
FailureStep ==
    \/ pc = "sni_skip" /\ pc' # pc
    \/ pc = "sci_fail" /\ pc' # pc

\* C19: after a load or display failure at index i the controller is left so
\* that the next index show_next_image attempts is (i + 1) % N: no index is
\* passed over without an attempt.
C19_NoIndexSkipped ==
    [][FailureStep => NextIndex(current_index') = NextIndex(FailedIndex)]_vars

\* one file of the list can never be loaded, every other file loads and decodes
SingleBadImage ==
    /\ Cardinality({o \in DOMAIN files : files[o] = "bad"}) = 1
    /\ \A o \in DOMAIN files : files[o] \in {"bad", "ok"}

\* C20: with a single image that fails to load the show does not halt: the
\* controller never takes exit(1) at line 309, so that ticks go on.
C20_SingleFailureKeepsPlaying == SingleBadImage => ~Terminated

\* C21: as long as the session has not terminated the loader thread is alive:
\* it has not left its `while True` loop.
C21_LoaderAlive == (ListLoaded /\ ~Terminated) => lpc # "dead"

\* C22: a fetch that has failed on the loader (load_image_sync returned None)
\* leaves the cache as it is: the loader goes back to its queue and no entry
\* of another index is removed on its account.
C22_FailedFetchKeepsCache ==
    [][(lpc \in {"fail_t", "size", "min", "del"} /\ limage = NoImage /\ lpc' # lpc)
          => image_cache' = image_cache]_vars

\* C23: a step of the loader thread touches the queue and the cache only: it
\* leaves error_count, current_index, is_paused and the controller's position
\* (running or exited) as they are.
C23_LoaderFrame ==
    [][LoaderThread => UNCHANGED <<error_count, current_index, is_paused, pc>>]_vars

\* C24: when the list cannot be obtained the session is over at once: no
\* image has been requested or fetched, none is displayed and no timer is
\* armed, in that state and ever after.
C24_NoListNoShow ==
    pc = "nolist" =>
        /\ load_queue = << >> /\ lpc = "get" /\ image_cache = << >>
        /\ error_count = 0 /\ bad_images_file = {}
        /\ label_image = NoImage
        /\ after_pending = << >> /\ timer_id = 0

C24_Witness == pc = "nolist" /\ server_url /\ Len(photos) = ShortList

\* C25: construction ends Playing at current_index 0 and, when the load of
\* index 0 has succeeded, with its image on display and exactly one timer
\* pending, armed for `interval`.
C25_StartsPlayingAtZero ==
    [][(handler = "init" /\ CallbackEnds)
          => /\ ~is_paused'
             /\ HasKey(image_cache', 0)
                  => /\ current_index' = 0
                     /\ label_image' = NormalizedImageOf(0)
                     /\ after_pending' = <<interval>>
                     /\ timer_id' = 1]_vars

\* the last request was for an image of a key whose list is loaded
ImageOfKnownKey == response.endpoint = "image" /\ response.known
\* the path that request addresses, its index being numeric and in range
AddressedPath == ValueOf(slideshows, response.key)[response.arg.value + 1]
InRange ==
    /\ response.arg.numeric
    /\ response.arg.value >= 0
    /\ response.arg.value < Len(ValueOf(slideshows, response.key))

\* C26: for a known key get_image answers 404 when the index is negative or
\* not below the length of the list, and when the file addressed does not exist.
C26_MissingImageIs404 ==
    (/\ ImageOfKnownKey
     /\ response.arg.numeric
     /\ ~InRange \/ ~IsFile(AddressedPath))
        => response.status = 404

\* C27: when the file addressed exists, get_image answers 400 unless its
\* content type is an image type, and only then 200 with the file.
C27_NonImageIs400 ==
    (ImageOfKnownKey /\ InRange /\ IsFile(AddressedPath))
        => IF IsImageType(ContentType(AddressedPath))
           THEN response.status = 200 /\ response.body = <<AddressedPath>>
           ELSE response.status = 400

\* C28: an unknown key is answered 404: by get_image_list when the key has
\* no list file, by get_image when the list of the key has not been loaded.
C28_UnknownKeyIs404 ==
    /\ (response.endpoint = "list" /\ ~ListExists(ListFileName(response.key)))
          => response.status = 404
    /\ (response.endpoint = "image" /\ ~response.known)
          => response.status = 404

\* C29: when show_previous_image returns, no timer is pending if the show
\* is paused and exactly one if it is playing, whether its loads have failed
\* or not.
C29_PreviousRearmsIfPlaying ==
    [][(handler \in {"prev", "prev_skip"} /\ CallbackEnds)
          => Len(after_pending') = IF is_paused THEN 0 ELSE 1]_vars

\* playback has moved past the index the loader is fetching
MovedPast == index \notin {NoIndex, current_index, NextIndex(current_index)}

\* C30: a fetch the loader has started is carried through: when it has
\* succeeded its image is in the cache under its index, from the store of
\* load_image_sync to the loader's own store and after it, wherever
\* current_index stands by then.
C30_PrefetchNeverCancelled ==
    [][/\ (lpc' \in {"reset", "store"} /\ limage' # NoImage)
            => /\ HasKey(image_cache', index')
               /\ ValueOf(image_cache', index') = limage'
       /\ (lpc = "store" /\ lpc' # "store")
            => /\ HasKey(image_cache', index)
               /\ ValueOf(image_cache', index) = limage]_vars

C30_Witness ==
    /\ lpc = "size" /\ limage # NoImage /\ MovedPast
    /\ HasKey(image_cache, index)

\* the call has returned for a picture with tag value o whose pixels decode
Returned(o) ==
    exif_result # NoPicture /\ exif_image.orientation = o /\ ~exif_image.truncated

\* C31: with orientation 6 a W x H picture comes back H x W, turned a quarter
\* turn clockwise: the pixel of <<x, y>> lands at <<H - 1 - y, x>>; with no
\* orientation tag the picture comes back as it was given.
C31_Orientation6QuarterTurn ==
    /\ Returned(6) =>
          /\ exif_result.w = exif_image.h /\ exif_result.h = exif_image.w
          /\ \A c \in Coords(exif_image.w, exif_image.h) :
                exif_result.px[<<exif_image.h - 1 - c[2], c[1]>>] = exif_image.px[c]
    /\ Returned(0) => exif_result = exif_image

C31_Witness ==
    /\ Returned(6) /\ exif_image.w = 3 /\ exif_image.h = 2
    /\ exif_result.px[<<1, 0>>] = <<0, 0>>

\* C32: at most one timer is pending at any time and timer_id is its id, so
\* that stop_timer cancels every pending timer.
C32_OneTimer ==
    /\ Len(after_pending) <= 1
    /\ after_pending # << >> => timer_id = 1 /\ Cancel(after_pending, timer_id) = << >>

\* C33: the loader does not evict the entry it has just inserted: when its
\* prefetch of the index after current_index has succeeded and it goes on to
\* evict, its victim is another entry, so that the next tick finds the
\* prefetched image in the cache.
C33_KeepsOwnInsertion ==
    [][(/\ lpc = "del" /\ lpc' # "del"
        /\ limage # NoImage
        /\ index = NextIndex(current_index))
          => HasKey(image_cache', index)]_vars

\* C34: the controller writes a line to the bad images file and skips an
\* index only when the image of that index has failed to load or to decode:
\* never for an image whose file opens and decodes, whatever the loader does
\* to the cache between the membership test and the read.
C34_OnlyRealFailuresLogged ==
    [][bad_images_file' # bad_images_file => ~Loadable(FailedIndex)]_vars

\* C35: for every playback index i the path local mode opens and the
\* original index remote mode requests are the same image of the list as it
\* was read, image_indexes[i], and image_paths[i] is the path of that image:
\* whichever mode is in use loads that image for i.
C35_ModesAddressSameImage ==
    ListLoaded =>
        \A i \in 0 .. N - 1 :
            /\ LocalFile(i) = RemoteFile(i)
            /\ SourceFile(i) = image_indexes[i + 1]
            /\ image_paths[i + 1] = PathOf(image_indexes[i + 1])

C35_Witness ==
    /\ ~server_url /\ pc = "idle" /\ N = 3
    /\ image_indexes = <<2, 0, 1>>
    /\ current_index = 1
    /\ label_image.file = 0 /\ LocalFile(1) = 0 /\ RemoteFile(1) = 0

\* a load_image_sync call fails in this step, counts its failure in this step
CtlLoadFails == pc = "load" /\ pc' = "fail_w"
LoaderLoadFails == lpc = "load" /\ lpc' = "fail_w"
CtlCounts == pc = "fail_w" /\ pc' # "fail_w"
LoaderCounts == lpc = "fail_w" /\ lpc' # "fail_w"
\* a load_image_sync call opens its file and stores the image in this step
CtlLoadStores == pc = "load" /\ pc' = "reset"
LoaderLoadStores == lpc = "load" /\ lpc' = "reset"

\* C36: a load that fails leaves the cache as it is and adds exactly one to
\* error_count; a load that succeeds adds the entry of its index, the image
\* of that index, and nothing else; a file whose pixels do not decode is a
\* failed load.
C36_LoadOutcome ==
    [][/\ (CtlLoadFails \/ LoaderLoadFails) => image_cache' = image_cache
       /\ (CtlCounts \/ LoaderCounts)
            => image_cache' = image_cache /\ error_count' = error_count + 1
       /\ CtlLoadStores
            => /\ image_cache' = Store(image_cache, LoadIndex, NormalizedImageOf(LoadIndex))
               /\ Decodes(NormalizedImageOf(LoadIndex))
       /\ LoaderLoadStores
            => /\ image_cache' = Store(image_cache, index, NormalizedImageOf(index))
               /\ Decodes(NormalizedImageOf(index))]_vars

====
